---- MODULE Spec2Model ----
(***************************************************************************)
(* Model of balancer_v2.py: the ArbitrageBalancer script strategy.         *)
(*                                                                         *)
(* on_tick is a synchronous callback of the event loop; arbitrage_task is  *)
(* a coroutine that on_tick schedules with safe_ensure_future.  A          *)
(* coroutine runs without interruption from one await of a gateway call    *)
(* (or of asyncio.sleep) to the next, so each action below is the code     *)
(* between two suspension points.                                          *)
(*                                                                         *)
(* Decimal values are pairs <<hi, lo>> standing for                        *)
(*        hi * 10^-6  +  lo * 10^-23                                       *)
(* with |lo| far below 10^17, so that two values compare                   *)
(* lexicographically.  The second limb is there because                    *)
(* float(Decimal("0.0005")) differs from 0.0005 by about 10^-20.           *)
(***************************************************************************)
EXTENDS Integers, Sequences, FiniteSets, Bags

\* ------------------------------------------------------------------ bounds
\* most arbitrage_task coroutines on_tick launches in one behaviour
MaxTasks == 2
\* most pending answers (-1, 0, 2) the gateway gives to one transaction
MaxPending == 1
\* oracle rates 1 .. MaxOracle (whole units) for the single-cycle runs
MaxOracle == 2
\* slippage tolerances 0 .. MaxSlippage hundredths compared in C6_LimitPrice
MaxSlippage == 3

\* ------------------------------------------------------- Decimal arithmetic
\* hi units per 1
Unit == 1000000
Zero == <<0, 0>>
One == <<Unit, 0>>

Add(a, b) == <<a[1] + b[1], a[2] + b[2]>>
Sub(a, b) == <<a[1] - b[1], a[2] - b[2]>>
Neg(a) == <<0 - a[1], 0 - a[2]>>
Gt(a, b) == a[1] > b[1] \/ (a[1] = b[1] /\ a[2] > b[2])
Ge(a, b) == a = b \/ Gt(a, b)
Abs(a) == IF Gt(Zero, a) THEN Neg(a) ELSE a
\* k * a for a whole number k
Times(k, a) == <<k * a[1], k * a[2]>>
\* a / b for a whole-unit divisor b (b = <<k * Unit, 0>>); the quotient is
\* exact on the inputs drawn below, which are multiples of the oracle rate
Div(a, b) == <<a[1] \div (b[1] \div Unit), a[2] \div (b[1] \div Unit)>>
\* a * (h / 100) for a whole number of hundredths h; exact on the inputs
\* drawn below, whose limbs are multiples of 100
MulHundredths(a, h) == <<(a[1] * h) \div 100, (a[2] * h) \div 100>>

\* ------------------------------------------------------ class attributes
\* slippage_buffer = Decimal("0.01"), in hundredths
slippage_buffer == 1
\* minimum_profitability = Decimal("0.0005")
minimum_profitability == <<500, 0>>
\* float(minimum_profitability): the double nearest to 0.0005 is
\* 0.0005000000000000000104083408558608425664715468883514404296875.
\* Its digits below 10^-23 are dropped: they lie strictly between two grid
\* points, so x > float(...) is decided exactly for every grid value x.
float_minimum_profitability == <<500, 1040>>
\* the rate update_api_price assigns; prices are held in units of this rate
FixedRate == One

\* connector_chain_network.split("_")
connector == "balancer"
chain == "ethereum"
network == "mainnet"

VARIABLES on_going_task, api_price, dex_price, tasks, gateway_connections_conf

vars == <<on_going_task, api_price, dex_price, tasks, gateway_connections_conf>>

\* --------------------------------------------------------------- tasks
NoDec == <<>>

\* an arbitrage_task coroutine that safe_ensure_future has scheduled
NewTask ==
    [pc |-> "scheduled", result |-> "None", address |-> "None",
     trade_type |-> "None", quote |-> NoDec, venue_read |-> NoDec,
     limit_price |-> NoDec, calls |-> <<>>, sleeps |-> 0,
     tx_status |-> <<>>, poll_outcome |-> "None"]

AllTasks == BagToSet(tasks)
Running == {t \in AllTasks : t.pc # "done"}
Finished == {t \in AllTasks : t.pc = "done"}
\* how many launched coroutines have not returned yet
InFlight == BagCardinality([t \in Running |-> tasks[t]])

Replace(t, u) == (tasks (-) SetToBag({t})) (+) SetToBag({u})

\* the coroutine returns (or its exception is caught and logged)
Done(t, r) == [t EXCEPT !.pc = "done", !.result = r]

\* the coroutine issues gateway call c and suspends on it
Call(t, c, at) == [t EXCEPT !.pc = at, !.calls = Append(@, c)]

\* ------------------------------------------------------------- wallets
Wallet(ch, co, ne, addr) ==
    [chain |-> ch, connector |-> co, network |-> ne, wallet_address |-> addr]

WalletConfigs ==
    { <<>>,
      <<Wallet("solana", "jupiter", "mainnet", "0xOther")>>,
      <<Wallet("ethereum", "balancer", "mainnet", "0xWallet")>>,
      <<Wallet("ethereum", "uniswap", "mainnet", "0xOther"),
        Wallet("ethereum", "balancer", "mainnet", "0xWallet"),
        Wallet("ethereum", "balancer", "mainnet", "0xSecond")>> }

\* ----------------------------------------------------------------- Init
Init ==
    /\ on_going_task = FALSE
    /\ api_price = Zero
    /\ dex_price = Zero
    /\ tasks = EmptyBag
    /\ gateway_connections_conf \in WalletConfigs

\* update_api_price leaving the initial value of __init__
update_api_price_unset == Zero

\* update_api_price
update_api_price == FixedRate

\* on_tick: the guard is set, the coroutine is scheduled (it does not run
\* before on_tick returns) and the guard is cleared again
\* on_tick without line 60: the guard stays set after the launch
OnTickKeepsGuard ==
    /\ BagCardinality(tasks) < MaxTasks
    /\ IF ~on_going_task
       THEN /\ api_price' = update_api_price
            /\ tasks' = tasks (+) SetToBag({NewTask})
            /\ on_going_task' = TRUE
            /\ UNCHANGED <<dex_price, gateway_connections_conf>>
       ELSE UNCHANGED vars

OnTick ==
    /\ BagCardinality(tasks) < MaxTasks
    /\ IF ~on_going_task
       THEN /\ api_price' = update_api_price
            /\ tasks' = tasks (+) SetToBag({NewTask})
            /\ on_going_task' = FALSE
            /\ UNCHANGED <<dex_price, gateway_connections_conf>>
       ELSE UNCHANGED vars

\* calculate_trade_direction: the deviation of dex from api, against the
\* threshold as a float.  Dividing by a zero api_price raises.
Deviation(api, dex) == Div(Sub(dex, api), api)
\* calculate_trade_direction comparing with >= against the Decimal threshold
calculate_trade_direction_ge(api, dex) ==
    IF api = Zero THEN "raise"
    ELSE IF Ge(Abs(Deviation(api, dex)), minimum_profitability)
         THEN IF Gt(Deviation(api, dex), Zero) THEN "SELL" ELSE "BUY"
         ELSE "None"

calculate_trade_direction(api, dex) ==
    IF api = Zero THEN "raise"
    ELSE IF Gt(Abs(Deviation(api, dex)), float_minimum_profitability)
         THEN IF Gt(Deviation(api, dex), Zero) THEN "SELL" ELSE "BUY"
         ELSE "None"

\* get_wallet_address: the first configured wallet of this chain, connector
\* and network, or None
MatchingWallets(conf, ch, ne, co) ==
    SelectSeq(conf, LAMBDA w : w.chain = ch /\ w.connector = co /\ w.network = ne)
get_wallet_address(conf, ch, ne, co) ==
    IF Len(conf) < 1 THEN "None"
    ELSE IF MatchingWallets(conf, ch, ne, co) = <<>> THEN "None"
         ELSE MatchingWallets(conf, ch, ne, co)[1].wallet_address

\* the limit price of determine_and_execute_trade, for a slippage of slip
\* hundredths
\* the limit price with the two signs exchanged
LimitPriceSwapped(trade_type, dex, slip) ==
    IF trade_type = "BUY"
    THEN MulHundredths(dex, 100 - slip)
    ELSE MulHundredths(dex, 100 + slip)

LimitPrice(trade_type, dex, slip) ==
    IF trade_type = "BUY"
    THEN MulHundredths(dex, 100 + slip)
    ELSE MulHundredths(dex, 100 - slip)

\* arbitrage_task up to its first suspension: params is built and
\* fetch_dex_price awaits get_price
StartTask(t) ==
    /\ t.pc = "scheduled"
    /\ tasks' = Replace(t, Call(t, "get_price", "get_price"))
    /\ UNCHANGED <<on_going_task, api_price, dex_price, gateway_connections_conf>>

\* get_price answers p: dex_price is assigned, the direction is decided, and
\* for a profitable direction the wallet is looked up and the balances asked
\* determine_and_execute_trade without the test of trade_type at line 113
AfterQuoteNoDirectionTest(t, p, tt, addr) ==
    IF tt = "raise" THEN Done([t EXCEPT !.quote = p], "error")
    ELSE IF addr = "None"
         THEN Done([t EXCEPT !.quote = p, !.trade_type = tt], "no_wallet")
         ELSE Call([t EXCEPT !.quote = p, !.trade_type = tt, !.address = addr],
                   "get_balances", "get_balances")

\* determine_and_execute_trade without the test of the address at line 118
AfterQuoteNoAddressTest(t, p, tt, addr) ==
    IF tt = "raise" THEN Done([t EXCEPT !.quote = p], "error")
    ELSE IF tt = "None" THEN Done([t EXCEPT !.quote = p], "no_trade")
    ELSE Call([t EXCEPT !.quote = p, !.trade_type = tt, !.address = addr],
              "get_balances", "get_balances")

AfterQuote(t, p, tt, addr) ==
    IF tt = "raise" THEN Done([t EXCEPT !.quote = p], "error")
    ELSE IF tt = "None" THEN Done([t EXCEPT !.quote = p], "no_trade")
    ELSE IF addr = "None"
         THEN Done([t EXCEPT !.quote = p, !.trade_type = tt], "no_wallet")
         ELSE Call([t EXCEPT !.quote = p, !.trade_type = tt, !.address = addr],
                   "get_balances", "get_balances")
GetPriceReturn(t, p) ==
    /\ t.pc = "get_price"
    /\ dex_price' = p
    /\ tasks' = Replace(t, AfterQuote(t, p, calculate_trade_direction(api_price, p),
                           get_wallet_address(gateway_connections_conf,
                                              chain, network, connector)))
    /\ UNCHANGED <<on_going_task, api_price, gateway_connections_conf>>

\* get_price raises (or its answer holds no price): caught by arbitrage_task
GetPriceRaise(t) ==
    /\ t.pc = "get_price"
    /\ tasks' = Replace(t, Done(t, "price_failed"))
    /\ UNCHANGED <<on_going_task, api_price, dex_price, gateway_connections_conf>>

\* the balances before the trade arrive: the limit price is computed from
\* self.dex_price as it is now, and execute_trade awaits amm_trade
Submit(t, dex) ==
    Call([t EXCEPT !.venue_read = dex,
                   !.limit_price = LimitPrice(t.trade_type, dex, slippage_buffer)],
         "amm_trade", "amm_trade")
GetBalanceReturn(t) ==
    /\ t.pc = "get_balances"
    /\ tasks' = Replace(t, Submit(t, dex_price))
    /\ UNCHANGED <<on_going_task, api_price, dex_price, gateway_connections_conf>>

\* get_balances raises before the trade: nothing catches it below
\* arbitrage_task
\* get_balances raising with no try around the body of arbitrage_task: the
\* exception leaves the coroutine
GetBalanceRaiseEscapes(t) ==
    /\ t.pc = "get_balances"
    /\ tasks' = Replace(t, [t EXCEPT !.pc = "raised", !.result = "balance_failed"])
    /\ UNCHANGED <<on_going_task, api_price, dex_price, gateway_connections_conf>>

GetBalanceRaise(t) ==
    /\ t.pc = "get_balances"
    /\ tasks' = Replace(t, Done(t, "balance_failed"))
    /\ UNCHANGED <<on_going_task, api_price, dex_price, gateway_connections_conf>>

\* amm_trade answers with a txHash: poll_transaction asks for the status
\* execute_trade going from the submission straight to the balances, without
\* awaiting poll_transaction
AmmTradeReturnSkipsPoll(t) ==
    /\ t.pc = "amm_trade"
    /\ tasks' = Replace(t, Call(t, "get_balances", "get_balances_after"))
    /\ UNCHANGED <<on_going_task, api_price, dex_price, gateway_connections_conf>>

AmmTradeReturn(t) ==
    /\ t.pc = "amm_trade"
    /\ tasks' = Replace(t, Call(t, "get_transaction_status", "get_transaction_status"))
    /\ UNCHANGED <<on_going_task, api_price, dex_price, gateway_connections_conf>>

\* amm_trade raises: caught by execute_trade
\* amm_trade raising and execute_trade submitting again
AmmTradeRaiseResubmits(t) ==
    /\ t.pc = "amm_trade"
    /\ tasks' = Replace(t, Call(t, "amm_trade", "amm_trade"))
    /\ UNCHANGED <<on_going_task, api_price, dex_price, gateway_connections_conf>>

AmmTradeRaise(t) ==
    /\ t.pc = "amm_trade"
    /\ tasks' = Replace(t, Done(t, "trade_failed"))
    /\ UNCHANGED <<on_going_task, api_price, dex_price, gateway_connections_conf>>

\* txStatus codes the gateway answers with
PendingCodes == {-1, 0, 2}
StatusCodes == {1, -1, 0, 2, 5}

\* one pass of the loop of poll_transaction after the status has arrived
\* the loop body with the unrecognized codes treated like the pending ones
AfterStatusUnknownPending(t, s) ==
    IF s = 1
    THEN Call([t EXCEPT !.tx_status = <<s>>, !.poll_outcome = "confirmed"],
              "get_balances", "get_balances_after")
    ELSE [t EXCEPT !.tx_status = <<s>>, !.pc = "sleep", !.sleeps = @ + 1]

\* the loop body asking again at once after a pending status, with no
\* asyncio.sleep
AfterStatusNoSleep(t, s) ==
    IF s = 1
    THEN Call([t EXCEPT !.tx_status = <<s>>, !.poll_outcome = "confirmed"],
              "get_balances", "get_balances_after")
    ELSE IF s \in PendingCodes
         THEN Call(t, "get_transaction_status", "get_transaction_status")
         ELSE Call([t EXCEPT !.tx_status = <<s>>, !.poll_outcome = "unknown"],
                   "get_balances", "get_balances_after")

\* (poll_outcome is what the loop logs when it ends)
AfterStatus(t, s) ==
    IF s = 1
    THEN Call([t EXCEPT !.tx_status = <<s>>, !.poll_outcome = "confirmed"],
              "get_balances", "get_balances_after")
    ELSE IF s \in PendingCodes
         THEN [t EXCEPT !.tx_status = <<s>>, !.pc = "sleep", !.sleeps = @ + 1]
         ELSE Call([t EXCEPT !.tx_status = <<s>>, !.poll_outcome = "unknown"],
                   "get_balances", "get_balances_after")
StatusReturn(t, s) ==
    /\ t.pc = "get_transaction_status"
    /\ s \in PendingCodes => t.sleeps < MaxPending
    /\ tasks' = Replace(t, AfterStatus(t, s))
    /\ UNCHANGED <<on_going_task, api_price, dex_price, gateway_connections_conf>>

\* get_transaction_status raises: caught inside the loop, which ends
\* the except clause without pending = False: the loop asks again
AfterStatusErrorRetry(t) ==
    Call([t EXCEPT !.poll_outcome = "error"],
         "get_transaction_status", "get_transaction_status")

AfterStatusError(t) ==
    Call([t EXCEPT !.poll_outcome = "error"], "get_balances", "get_balances_after")
StatusRaise(t) ==
    /\ t.pc = "get_transaction_status"
    /\ tasks' = Replace(t, AfterStatusError(t))
    /\ UNCHANGED <<on_going_task, api_price, dex_price, gateway_connections_conf>>

\* asyncio.sleep never returning: the task stays suspended in the loop
SleepDoneNeverWakes(t) ==
    /\ t.pc = "sleep"
    /\ UNCHANGED vars

\* asyncio.sleep(task_cooldown) is over: the loop asks for the status again
\* (tx_status is overwritten before it is read again)
SleepDone(t) ==
    /\ t.pc = "sleep"
    /\ tasks' = Replace(t, Call([t EXCEPT !.tx_status = <<>>],
                                "get_transaction_status", "get_transaction_status"))
    /\ UNCHANGED <<on_going_task, api_price, dex_price, gateway_connections_conf>>

\* the balances after the trade arrive: execute_trade and the task return
PostBalanceReturn(t) ==
    /\ t.pc = "get_balances_after"
    /\ tasks' = Replace(t, Done(t, "completed"))
    /\ UNCHANGED <<on_going_task, api_price, dex_price, gateway_connections_conf>>

\* get_balances raises after the trade: caught by execute_trade
PostBalanceRaise(t) ==
    /\ t.pc = "get_balances_after"
    /\ tasks' = Replace(t, Done(t, "post_balance_failed"))
    /\ UNCHANGED <<on_going_task, api_price, dex_price, gateway_connections_conf>>

\* ---------------------------------------------------------------- quotes
\* venue prices the gateway quotes while ticks and cycles interleave: the
\* oracle rate itself, 8.6% above it and 8.6% below it
VenueQuotes == {FixedRate, Add(FixedRate, <<86000, 0>>), Sub(FixedRate, <<86000, 0>>)}

\* deviations for single cycles: around the threshold 0.0005 in steps of
\* 10^-4, and next to float(0.0005) in steps of 10^-21
DevHi == {0, 400, 500, 600, 86000}
DevLo == {0, 500, 1000, 1100}
Deviations ==
    {<<sg * h, sg * l>> : sg \in {-1, 1}, h \in DevHi, l \in DevLo}
\* the venue prices at those deviations from the oracle rate api
CycleQuotes(api) ==
    {Times(api[1] \div Unit, Add(One, d)) : d \in Deviations}

Next ==
    \/ OnTick
    \/ \E t \in Running : \E p \in VenueQuotes : GetPriceReturn(t, p)
    \/ \E t \in Running : StartTask(t)
    \/ \E t \in Running : GetPriceRaise(t)
    \/ \E t \in Running : GetBalanceReturn(t)
    \/ \E t \in Running : GetBalanceRaise(t)
    \/ \E t \in Running : AmmTradeReturn(t)
    \/ \E t \in Running : AmmTradeRaise(t)
    \/ \E t \in Running : StatusRaise(t)
    \/ \E t \in Running : SleepDone(t)
    \/ \E t \in Running : PostBalanceReturn(t)
    \/ \E t \in Running : PostBalanceRaise(t)
    \/ \E t \in Running : \E s \in StatusCodes : StatusReturn(t, s)

Spec == Init /\ [][Next]_vars

\* a step of some launched coroutine: a gateway call of it returns or raises,
\* or its sleep ends
TaskStep ==
    \E t \in Running :
        \/ StartTask(t)
        \/ \E p \in VenueQuotes : GetPriceReturn(t, p)
        \/ GetPriceRaise(t)
        \/ GetBalanceReturn(t)
        \/ GetBalanceRaise(t)
        \/ AmmTradeReturn(t)
        \/ AmmTradeRaise(t)
        \/ StatusRaise(t)
        \/ SleepDone(t)
        \/ PostBalanceReturn(t)
        \/ PostBalanceRaise(t)
        \/ \E s \in StatusCodes : StatusReturn(t, s)

\* the event loop runs every coroutine that can continue, every gateway call
\* is answered or fails, and a transaction is pending at most MaxPending times
SpecFair == Spec /\ WF_vars(TaskStep)

\* ------------------------------------------------------- a single cycle
\* one cycle on its own: update_api_price has assigned a rate of 1 ..
\* MaxOracle units and on_tick has scheduled the task
InitCycle ==
    /\ on_going_task = FALSE
    /\ api_price \in {Times(k, One) : k \in 1..MaxOracle}
    /\ dex_price = Zero
    /\ tasks = SetToBag({NewTask})
    /\ gateway_connections_conf \in WalletConfigs

NextCycle ==
    \/ \E t \in Running : \E p \in CycleQuotes(api_price) : GetPriceReturn(t, p)
    \/ \E t \in Running : StartTask(t)
    \/ \E t \in Running : GetPriceRaise(t)
    \/ \E t \in Running : GetBalanceReturn(t)
    \/ \E t \in Running : GetBalanceRaise(t)
    \/ \E t \in Running : AmmTradeReturn(t)
    \/ \E t \in Running : AmmTradeRaise(t)
    \/ \E t \in Running : StatusRaise(t)
    \/ \E t \in Running : SleepDone(t)
    \/ \E t \in Running : PostBalanceReturn(t)
    \/ \E t \in Running : PostBalanceRaise(t)
    \/ \E t \in Running : \E s \in StatusCodes : StatusReturn(t, s)

SpecCycle == InitCycle /\ [][NextCycle]_vars

\* ================================================================ claims
FailureResults ==
    {"price_failed", "balance_failed", "trade_failed", "post_balance_failed"}

\* C1: a tick that arrives while an earlier arbitrage_task has not finished
\* launches nothing, so at most one arbitrage_task is in flight at any time.
C1_AtMostOneInFlight == InFlight <= 1

\* C2: on_going_task is True in every state in which a launched
\* arbitrage_task is still unfinished.
C2_GuardHeldWhileUnfinished == InFlight > 0 => on_going_task

\* C3: once a cycle has ended, on whatever path (success, NoTrade, missing
\* wallet, a failure at any stage), on_going_task is False and the next
\* on_tick launches a new cycle.
C3_GuardReleased ==
    Finished # {} =>
        /\ ~on_going_task
        /\ BagCardinality(tasks) < MaxTasks =>
               ENABLED (OnTick /\ tasks' = tasks (+) SetToBag({NewTask}))

\* a cycle has ended with a failure and a later tick has scheduled a task
C3_Witness ==
    /\ \E t \in Finished : t.result \in FailureResults
    /\ \E t \in Running : t.pc = "scheduled"
    /\ ~on_going_task
\* the tasks whose get_price has answered, and so have decided a direction
Decided == {t \in AllTasks : t.quote # NoDec}
\* the tasks that have called amm_trade
Submitted == {t \in AllTasks : \E i \in 1..Len(t.calls) : t.calls[i] = "amm_trade"}
\* minimum_profitability * api_price, for an api_price of whole units
Threshold == Times(api_price[1] \div Unit, minimum_profitability)

\* C4: whenever |(venue - oracle) / oracle| <= minimum_profitability, the
\* threshold itself included, calculate_trade_direction returns None and the
\* cycle ends as NoTrade.  (Stated without the division: |venue - oracle| <=
\* minimum_profitability * oracle.)
C4_NoTradeWithinThreshold ==
    \A t \in Decided :
        Ge(Threshold, Abs(Sub(t.quote, api_price))) =>
            t.trade_type = "None" /\ t.pc = "done" /\ t.result = "no_trade"

\* a cycle whose deviation was the threshold exactly has ended as NoTrade
C4_Witness ==
    \E t \in Finished :
        /\ t.quote # NoDec
        /\ Abs(Sub(t.quote, api_price)) = Threshold
        /\ t.result = "no_trade"

\* C5: whenever |(venue - oracle) / oracle| > minimum_profitability,
\* calculate_trade_direction returns Sell for venue > oracle and Buy for
\* venue < oracle.
C5_DirectionBeyondThreshold ==
    \A t \in Decided :
        Gt(Abs(Sub(t.quote, api_price)), Threshold) =>
            t.trade_type = (IF Gt(t.quote, api_price) THEN "SELL" ELSE "BUY")

\* C6: the limit price passed to amm_trade is the venue price (self.dex_price
\* as determine_and_execute_trade reads it) times (1 + slippage) for a Buy
\* and times (1 - slippage) for a Sell; the Buy limit is never below and the
\* Sell limit never above that price, and a larger slippage moves the limit
\* only further in that direction (each step of one hundredth, from 0 on).
C6_LimitPrice ==
    \A t \in Submitted :
        /\ t.trade_type \in {"BUY", "SELL"}
        /\ t.trade_type = "BUY" =>
              /\ Times(100, t.limit_price) = Times(100 + slippage_buffer, t.venue_read)
              /\ Ge(t.limit_price, t.venue_read)
        /\ t.trade_type = "SELL" =>
              /\ Times(100, t.limit_price) = Times(100 - slippage_buffer, t.venue_read)
              /\ Ge(t.venue_read, t.limit_price)
        /\ Ge(LimitPrice("BUY", t.venue_read, 0), t.venue_read)
        /\ Ge(t.venue_read, LimitPrice("SELL", t.venue_read, 0))
        /\ \A sl \in 1..MaxSlippage :
              /\ Ge(LimitPrice("BUY", t.venue_read, sl),
                    LimitPrice("BUY", t.venue_read, sl - 1))
              /\ Ge(LimitPrice("SELL", t.venue_read, sl - 1),
                    LimitPrice("SELL", t.venue_read, sl))

\* a Buy and a Sell have both been submitted
C6_Witness ==
    /\ \E t \in Submitted : t.trade_type = "BUY" /\ Gt(t.limit_price, t.venue_read)
    /\ \E t \in Submitted : t.trade_type = "SELL" /\ Gt(t.venue_read, t.limit_price)
\* C7: a cycle whose decision is NoTrade (oracle = venue in particular) calls
\* neither amm_trade nor the wallet lookup, get_balances or the status poll:
\* get_price is its only gateway call and it ends there.
C7_NoTradeNoAction ==
    \A t \in Decided :
        /\ t.quote = api_price => t.trade_type = "None"
        /\ t.trade_type = "None" =>
              /\ t.pc = "done" /\ t.result = "no_trade"
              /\ t.calls = <<"get_price">>
              /\ t.address = "None"
              /\ t.sleeps = 0 /\ t.tx_status = <<>>

\* a cycle quoted the oracle price itself and has ended as NoTrade
C7_Witness ==
    \E t \in Finished :
        t.quote = api_price /\ t.result = "no_trade" /\ t.calls = <<"get_price">>

\* no configured wallet has this chain, connector and network
NoMatchingWallet ==
    \A i \in 1..Len(gateway_connections_conf) :
        ~ /\ gateway_connections_conf[i].chain = chain
          /\ gateway_connections_conf[i].connector = connector
          /\ gateway_connections_conf[i].network = network

\* C8: params.address is unset until a profitable direction is decided;
\* every gateway call after get_price (get_balances, amm_trade, the status
\* poll) is made with the address set; and when no wallet matches, or none is
\* configured, the cycle makes no such call.
C8_AddressBeforeExecution ==
    \A t \in AllTasks :
        /\ t.trade_type = "None" => t.address = "None"
        /\ Len(t.calls) > 1 => t.address # "None"
        /\ t \in Submitted => t.address # "None"
        /\ NoMatchingWallet =>
              /\ t.address = "None"
              /\ t.calls \in {<<>>, <<"get_price">>}
              /\ t.trade_type # "None" => t.pc = "done" /\ t.result = "no_wallet"

\* wallets are configured, none of them matches, and a cycle that had found
\* a profitable direction has ended without any call after get_price
C8_Witness ==
    /\ gateway_connections_conf # <<>>
    /\ NoMatchingWallet
    /\ \E t \in Finished :
          /\ t.result = "no_wallet" /\ t.trade_type \in {"BUY", "SELL"}
          /\ t.calls = <<"get_price">>

\* how many status queries a task has issued
NumStatus(t) == Len(SelectSeq(t.calls, LAMBDA c : c = "get_transaction_status"))
LastCall(t) == t.calls[Len(t.calls)]

\* C9: a status outside the pending codes -1, 0, 2 ends the loop of
\* poll_transaction: no status query follows it (1 on the first query:
\* confirmed after exactly one query; an unrecognized code: unknown).
C9_TerminalStatusStops ==
    \A t \in AllTasks :
        (t.tx_status # <<>> /\ t.tx_status[1] \notin PendingCodes) =>
            /\ t.pc \in {"get_balances_after", "done"}
            /\ LastCall(t) = "get_balances"
            /\ NumStatus(t) = t.sleeps + 1
            /\ t.sleeps = 0 => NumStatus(t) = 1
            /\ t.poll_outcome = (IF t.tx_status[1] = 1 THEN "confirmed" ELSE "unknown")

\* one poll ended on a first answer of 1, another on a first answer of 5
C9_Witness ==
    /\ \E t \in AllTasks :
          t.tx_status = <<1>> /\ t.sleeps = 0 /\ t.poll_outcome = "confirmed"
    /\ \E t \in AllTasks :
          t.tx_status = <<5>> /\ t.sleeps = 0 /\ t.poll_outcome = "unknown"

\* C10: a status query that raises ends the loop of poll_transaction at that
\* iteration: the query is not repeated and no status query follows it.
C10_PollErrorStops ==
    \A t \in AllTasks :
        t.poll_outcome = "error" =>
            /\ t.pc \in {"get_balances_after", "done"}
            /\ LastCall(t) = "get_balances"
            /\ NumStatus(t) = t.sleeps + 1

\* a status query raised on the second iteration, after one pending answer
C10_Witness ==
    \E t \in AllTasks :
        t.poll_outcome = "error" /\ t.sleeps = 1 /\ NumStatus(t) = 2

\* how many times a task has issued gateway call c
NumCalls(t, c) == Len(SelectSeq(t.calls, LAMBDA x : x = c))

\* C11: a failure at any stage of a cycle is caught inside the coroutine: the
\* task returns (pc "done") with the failure logged, no exception leaves
\* arbitrage_task, and on_tick stays able to launch.
C11_FailuresCaught ==
    /\ \A t \in AllTasks :
          /\ t.pc # "raised"
          /\ t.result # "None" => t.pc = "done"
    /\ (Finished # {} /\ BagCardinality(tasks) < MaxTasks) => ENABLED OnTick

\* one cycle failed below arbitrage_task's handler (pre-trade balance) and
\* another below execute_trade's handler (submission), and both returned
C11_Witness ==
    /\ \E t \in Finished : t.result = "balance_failed"
    /\ \E t \in Finished : t.result = "trade_failed"

\* C12: once a step of a cycle has failed no later step of that cycle runs: a
\* failed quote is the last call, a failed pre-trade balance query prevents
\* the submission, a failed submission prevents the poll, and a status query
\* that raised prevents the post-trade balance report.
C12_AbortOnFailure ==
    \A t \in AllTasks :
        /\ t.result = "price_failed" => t.calls = <<"get_price">>
        /\ t.result = "balance_failed" => NumCalls(t, "amm_trade") = 0
        /\ t.result = "trade_failed" => NumCalls(t, "get_transaction_status") = 0
        /\ t.poll_outcome = "error" => NumCalls(t, "get_balances") <= 1

\* C13: amm_trade is called at most once in a cycle, and a submission that
\* failed is the cycle's last gateway call: no second submission, no status
\* poll, no balance query follows it.
C13_NoResubmission ==
    \A t \in AllTasks :
        /\ NumCalls(t, "amm_trade") <= 1
        /\ t.result = "trade_failed" =>
              t.calls = <<"get_price", "get_balances", "amm_trade">>

\* a submission was rejected and the cycle has ended
C13_Witness ==
    \E t \in Finished :
        t.result = "trade_failed" /\ NumCalls(t, "amm_trade") = 1

\* the gateway calls of one cycle in their order: the quote, the pre-trade
\* balances, the submission, one or more status queries, the post-trade
\* balances
InStageOrder(calls) ==
    \A i \in 1..Len(calls) :
        /\ i = 1 => calls[i] = "get_price"
        /\ i = 2 => calls[i] = "get_balances"
        /\ i = 3 => calls[i] = "amm_trade"
        /\ i = 4 => calls[i] = "get_transaction_status"
        /\ i > 4 => \/ calls[i] = "get_transaction_status"
                    \/ calls[i] = "get_balances" /\ i = Len(calls)

\* C14: the stages of one cycle run in strict sequence: oracle refresh, venue
\* quote, decision, wallet resolution, pre-trade balances, submission,
\* polling, post-trade balances; a stage starts only when the one before it
\* has completed, and a task waits on one call at a time, its latest.
C14_StagesInSequence ==
    \A t \in AllTasks :
        /\ api_price = FixedRate
        /\ InStageOrder(t.calls)
        /\ Len(t.calls) >= 2 =>
              t.quote # NoDec /\ t.trade_type # "None" /\ t.address # "None"
        /\ (t.limit_price # NoDec) = (Len(t.calls) >= 3)
        /\ t.pc \in {"get_price", "amm_trade", "get_transaction_status"} =>
              LastCall(t) = t.pc
        /\ t.pc = "get_balances" => Len(t.calls) = 2
        /\ t.pc = "sleep" => LastCall(t) = "get_transaction_status"
        /\ t.pc = "get_balances_after" =>
              LastCall(t) = "get_balances" /\ t.poll_outcome # "None"

\* a cycle has run through every stage, with one pending status on the way
C14_Witness ==
    \E t \in Finished :
        /\ t.result = "completed"
        /\ t.calls = <<"get_price", "get_balances", "amm_trade",
                       "get_transaction_status", "get_transaction_status",
                       "get_balances">>

\* C15: the limit price a cycle submits is derived from the venue price this
\* cycle itself fetched, the one its decision was made on: no other cycle's
\* quote changes dex_price between the decision and the limit price.
C15_OwnQuote ==
    \A t \in Submitted :
        /\ t.venue_read = t.quote
        /\ t.limit_price = LimitPrice(t.trade_type, t.quote, slippage_buffer)

\* the tasks polling for the confirmation of a submitted trade
Polling == {t \in Running : t.pc \in {"get_transaction_status", "sleep"}}
\* how many tasks have called amm_trade
NumSubmitted == BagCardinality([t \in Submitted |-> tasks[t]])

\* C16: amm_trade is never called while the poll_transaction loop of an
\* earlier transaction is still running.
C16_NoSubmitWhilePolling ==
    [][Polling # {} => NumSubmitted' = NumSubmitted]_vars

\* C17: poll_transaction repeats exactly while the status is pending: after k
\* pending answers it has slept k times, once after each, and its (k+1)-th
\* query is out; the answer that is not pending, or the error, ends the loop
\* after k + 1 queries with no sleep and no query after it.
C17_PollsWhilePending ==
    \A t \in AllTasks :
        /\ t.pc = "get_transaction_status" =>
              NumStatus(t) = t.sleeps + 1 /\ t.poll_outcome = "None"
        /\ t.pc = "sleep" =>
              /\ NumStatus(t) = t.sleeps
              /\ t.tx_status # <<>> /\ t.tx_status[1] \in PendingCodes
              /\ t.poll_outcome = "None"
        /\ t.poll_outcome # "None" =>
              /\ NumStatus(t) = t.sleeps + 1
              /\ t.pc \notin {"get_transaction_status", "sleep"}
              /\ LastCall(t) = "get_balances"
              /\ t.tx_status = <<>> \/ t.tx_status[1] \notin PendingCodes
        /\ NumStatus(t) = 0 => t.sleeps = 0 /\ t.poll_outcome = "None"

\* a poll has ended after one pending answer, one sleep and two queries, and
\* another at its first query
C17_Witness ==
    /\ \E t \in AllTasks :
          t.poll_outcome # "None" /\ t.sleeps = 1 /\ NumStatus(t) = 2
    /\ \E t \in AllTasks :
          t.poll_outcome # "None" /\ t.sleeps = 0 /\ NumStatus(t) = 1

\* how many launched coroutines have returned
NumFinished == BagCardinality([t \in Finished |-> tasks[t]])

\* C18: when every gateway call is answered or fails and a status is not
\* pending for ever, every launched cycle ends: once n cycles are launched, n
\* cycles end, for every n up to all of them.  The poller itself sets no
\* limit: while the gateway may still answer pending, the loop takes that
\* answer and goes on.
C18_EveryCycleEnds ==
    /\ \A n \in 1..MaxTasks :
          (BagCardinality(tasks) >= n) ~> (NumFinished >= n)
    /\ [](\A t \in Running :
            (t.pc = "get_transaction_status" /\ t.sleeps < MaxPending) =>
                ENABLED StatusReturn(t, 0))

\* every cycle that could be launched has ended, one of them after a sleep
C18_Witness ==
    /\ BagCardinality(tasks) = MaxTasks
    /\ Running = {}
    /\ \E t \in Finished : t.sleeps = MaxPending /\ t.result = "completed"

\* C19: on_tick refreshes api_price before it launches a cycle, so whenever a
\* task exists, and so whenever calculate_trade_direction divides by
\* api_price, api_price is the refreshed rate and not its initial 0: no cycle
\* ends in a division by zero.
C19_OracleRefreshed ==
    /\ tasks # EmptyBag => api_price = FixedRate /\ api_price # Zero
    /\ \A t \in Decided :
          /\ t.result # "error"
          /\ calculate_trade_direction(api_price, t.quote) # "raise"

\* a cycle has computed a deviation beyond the threshold from the refreshed rate
C19_Witness ==
    /\ api_price = FixedRate
    /\ \E t \in Decided : t.trade_type \in {"BUY", "SELL"}
====
